---- MODULE Spec2Model ----
(***************************************************************************)
(* finance-visualize (src/main.py): the concurrent fetch / normalize /     *)
(* summarize / aggregate pipeline.                                         *)
(*                                                                         *)
(* Three specifications share the operators below:                         *)
(*   SpecSym  process_symbol on one fetched payload (normalize_df and the  *)
(*            summary), the payload drawn from bounded sets;               *)
(*   SpecAgg  build_tv_json_and_heatmap on a list of SymbolResults, the    *)
(*            list drawn from process_symbol's outcomes;                   *)
(*   Spec     main: the pool's fan-out, as_completed's fan-in, then the    *)
(*            aggregation.                                                 *)
(*                                                                         *)
(* Python floats are modelled as exact rationals [k |-> "float", n, d];    *)
(* None, NaN and NaT are distinct tagged values.                           *)
(***************************************************************************)
EXTENDS Integers, Sequences, FiniteSets, TLC

VARIABLES
    \* process_symbol on one payload (SpecSym)
    fetched,      \* what fetch_history did: an exception or a raw payload
    df,           \* the frame normalize_df returned (NoFrame before, or if it raised)
    res,          \* the dict process_symbol returned (NoResult before)
    \* main (Spec) and build_tv_json_and_heatmap (SpecAgg)
    symbols,      \* read_symbols(SYMBOLS_FILE)
    sector_map,   \* read_sector_file(SECTORS_FILE), or {} when the file is missing
    mc_map,       \* read_marketcaps(MARKETCAPS_FILE), or {} when the file is missing
    task,         \* per submitted index: "new", "queued", "running", "finished"
    fut,          \* per index: the outcome stored in the future
    yielded,      \* indices as_completed has yielded to the driving thread
    results,      \* main's results list
    pc,           \* where the driving thread is
    tv_json,      \* the document build_tv_json_and_heatmap built
    files         \* the files written by this run

vars == <<fetched, df, res, symbols, sector_map, mc_map, task, fut, yielded,
          results, pc, tv_json, files>>

symVars == <<fetched, df, res>>
mainVars == <<symbols, sector_map, mc_map, task, fut, yielded, results, pc,
              tv_json, files>>

\* ------------------------------------------------------------------ bounds

\* rows in one fetched payload
MaxRows == 2
\* symbols in symbols.txt (tasks submitted to the pool)
MaxSymbols == 2
\* SymbolResults handed to the aggregation in SpecAgg
MaxItems == 2

\* ------------------------------------------------------------------ values

None == [k |-> "None"]
NaN == [k |-> "nan"]
NaT == [k |-> "NaT"]

RECURSIVE GCD(_, _)
GCD(a, b) == IF b = 0 THEN a ELSE GCD(b, a % b)

Abs(i) == IF i < 0 THEN -i ELSE i

\* the float n/d, d > 0, in lowest terms
Float(n, d) ==
    LET g == GCD(Abs(n), d)
    IN [k |-> "float", n |-> n \div g, d |-> d \div g]

IsFloat(x) == x.k = "float"

FAdd(a, b) == Float(a.n * b.d + b.n * a.d, a.d * b.d)
FSub(a, b) == Float(a.n * b.d - b.n * a.d, a.d * b.d)
FMul(a, b) == Float(a.n * b.n, a.d * b.d)
\* a / b for b # 0
FDiv(a, b) ==
    IF b.n > 0 THEN Float(a.n * b.d, a.d * b.n)
    ELSE Float(-(a.n * b.d), a.d * (-b.n))
FZero == Float(0, 1)
FGt0(a) == a.n > 0

\* Python truthiness of an optional float: None and 0.0 are falsy
Truthy(x) == IsFloat(x) /\ x.n # 0

SeqSet(S, n) == UNION {[1..m -> S] : m \in 0..n}

\* ------------------------------------------------------------------ fetch_history

\* the exceptions fetch_history raises: requests.get times out, raise_for_status
\* rejects the response, r.json() or ["Data"]["Data"] cannot read the payload
FetchErrors == {"timeout", "http", "parse"}

Raised(msg) == [k |-> "raise", msg |-> msg]
Payload(raw) == [k |-> "ok", raw |-> raw]

\* the provider's field names of a bar
RawKeys == {"Ngay", "GiaDongCua", "KhoiLuong"}

\* a day-first date string "dd/mm/yyyy" of one year
DateStr(day, month) == [k |-> "date", day |-> day, month |-> month]
\* a string that is no date or no number
Junk == [k |-> "junk"]

\* 02/01 (2 January) and 01/02 (1 February)
DateCells == {Junk, DateStr(2, 1), DateStr(1, 2)}
CloseCells == {None, Float(0, 1), Float(10, 1), Float(12, 1)}
VolCells == {None, Float(0, 1), Float(1000, 1)}

CellsOf(key) ==
    CASE key = "Ngay" -> DateCells
      [] key = "GiaDongCua" -> CloseCells
      [] OTHER -> VolCells

\* the bars with fields ks
RowsOver(ks) == {r \in [ks -> DateCells \cup CloseCells \cup VolCells] :
                    \A key \in ks : r[key] \in CellsOf(key)}

\* the payloads of at most n bars; all bars of one payload carry the same fields
RawInputs(n) == UNION {SeqSet(RowsOver(ks), n) : ks \in SUBSET RawKeys}

\* ------------------------------------------------------------------ normalize_df

\* str.lower on the provider's field names
Lower(c) ==
    CASE c = "Ngay" -> "ngay"
      [] c = "GiaDongCua" -> "giadongcua"
      [] c = "KhoiLuong" -> "khoiluong"
      [] OTHER -> c

\* df.rename(columns={...})
Rename(c) ==
    CASE c = "ngay" -> "date"
      [] c = "giamocua" -> "open"
      [] c = "giadongcua" -> "close"
      [] c = "giacaonhat" -> "high"
      [] c = "giathapnhat" -> "low"
      [] OTHER -> c

VolAliases == {"kl", "volume", "vol", "khoiluong", "khoi_luong"}

\* pd.DataFrame(raw).columns: the fields of the bars; no bars, no columns
RawColumns(raw) == IF raw = <<>> THEN {} ELSE DOMAIN raw[1]

Columns(raw) == {Rename(Lower(c)) : c \in RawColumns(raw)}

\* the raw field behind a renamed column
FieldOf(raw, col) == CHOOSE c \in RawColumns(raw) : Rename(Lower(c)) = col

vol_cols(raw) == {c \in Columns(raw) : c \in VolAliases}

\* pd.to_datetime(..., dayfirst=True, errors="coerce"): a day count, or NaT
to_datetime(cell) ==
    IF cell.k = "date" THEN [k |-> "ts", ord |-> cell.month * 31 + cell.day]
    ELSE NaT

\* pd.to_numeric(..., errors="coerce")
to_numeric(cell) == IF IsFloat(cell) THEN cell ELSE NaN

\* df["date"] on a frame without that column
RaisesKeyError(raw) == "date" \notin Columns(raw)

\* the frame's columns at return: "volume" added, "date" moved to the index
FrameColumns(raw) ==
    (Columns(raw) \cup (IF vol_cols(raw) # {} THEN {"volume"} ELSE {})) \ {"date"}

\* one bar after the coercions of lines 44-52
Coerce(raw, r) ==
    [c \in FrameColumns(raw) \cup {"date"} |->
        CASE c = "date" -> to_datetime(r[FieldOf(raw, "date")])
          [] c = "volume" /\ "volume" \notin Columns(raw) ->
                to_numeric(r[FieldOf(raw, CHOOSE v \in vol_cols(raw) : TRUE)])
          [] c = "volume" -> to_numeric(r[FieldOf(raw, c)])
          [] c = "close" -> to_numeric(r[FieldOf(raw, c)])
          [] OTHER -> r[FieldOf(raw, c)]]

RECURSIVE SelectSeqBy(_, _)
\* the rows of s, in order, whose index passes keep
SelectSeqBy(s, keep) ==
    IF s = <<>> THEN <<>>
    ELSE LET n == Len(s)
             front == SelectSeqBy(SubSeq(s, 1, n - 1), keep)
         IN IF keep[n] THEN Append(front, s[n]) ELSE front

\* dropna(subset=["date"]) and, with a close column, dropna(subset=["close"])
Dropna(raw) ==
    LET rows == [i \in 1..Len(raw) |-> Coerce(raw, raw[i])]
        keep == [i \in 1..Len(raw) |->
                    /\ rows[i]["date"] # NaT
                    /\ ("close" \in FrameColumns(raw) => rows[i]["close"] # NaN)]
    IN SelectSeqBy(rows, keep)

IsSortedByDate(rows) ==
    \A i \in 1..Len(rows) - 1 : rows[i]["date"].ord <= rows[i + 1]["date"].ord

\* the rows left as fetched (the sort forgotten)
sort_values_skipped(rows) == {rows}

\* sort_values("date"): kind="quicksort" is not stable, so rows of one date may
\* come out in any order
sort_values(rows) ==
    {s \in {[i \in 1..Len(rows) |-> rows[p[i]]] : p \in Permutations(1..Len(rows))} :
        IsSortedByDate(s)}

\* the frames normalize_df may return for a payload that has a date column
normalize_df(raw) ==
    {[columns |-> FrameColumns(raw), rows |-> s] : s \in sort_values(Dropna(raw))}

\* df.empty: no rows or no columns
Empty(frame) == frame.rows = <<>> \/ frame.columns = {}

\* ------------------------------------------------------------------ process_symbol

RECURSIVE SumVolume(_)
SumVolume(vol) ==
    IF vol = <<>> THEN FZero ELSE FAdd(SumVolume(Tail(vol)), Head(vol))

\* df["volume"].dropna().mean(), or None
AvgVolume(frame) ==
    IF "volume" \notin frame.columns THEN None
    ELSE LET all == [i \in 1..Len(frame.rows) |-> frame.rows[i]["volume"]]
             vol == SelectSeq(all, LAMBDA v : v # NaN)
         IN IF vol = <<>> THEN None
            ELSE FDiv(SumVolume(vol), Float(Len(vol), 1))

\* a zero first close filled with 0.0 instead of None
ChangePctZeroFilled(change, first) ==
    IF first # FZero THEN FMul(FDiv(change, first), Float(100, 1)) ELSE FZero

\* change / first * 100.0 if first != 0 else None
ChangePct(change, first) ==
    IF first # FZero THEN FMul(FDiv(change, first), Float(100, 1)) ELSE None

NullResult(symbol) ==
    [symbol |-> symbol, price |-> None, change |-> None, change_pct |-> None,
     avg_volume |-> None, n_points |-> 0]

\* the except branch: the null record with "error": str(e)
ErrorResult(symbol, msg) ==
    [symbol |-> symbol, price |-> None, change |-> None, change_pct |-> None,
     avg_volume |-> None, n_points |-> 0, error |-> msg]

\* the guard of line 119 without its "close" test, the closes read with .get
SummarizeNoCloseTest(symbol, frame) ==
    IF Empty(frame) THEN NullResult(symbol)
    ELSE IF "close" \notin frame.columns
    THEN [symbol |-> symbol, price |-> None, change |-> None, change_pct |-> None,
          avg_volume |-> AvgVolume(frame), n_points |-> Len(frame.rows)]
    ELSE LET first == frame.rows[1]["close"]
             last == frame.rows[Len(frame.rows)]["close"]
             change == FSub(last, first)
         IN [symbol |-> symbol, price |-> last, change |-> change,
             change_pct |-> ChangePct(change, first),
             avg_volume |-> AvgVolume(frame), n_points |-> Len(frame.rows)]

\* lines 119-130, on the frame normalize_df returned
Summarize(symbol, frame) ==
    IF Empty(frame) \/ "close" \notin frame.columns THEN NullResult(symbol)
    ELSE LET first == frame.rows[1]["close"]
             last == frame.rows[Len(frame.rows)]["close"]
             change == FSub(last, first)
         IN [symbol |-> symbol, price |-> last, change |-> change,
             change_pct |-> ChangePct(change, first),
             avg_volume |-> AvgVolume(frame), n_points |-> Len(frame.rows)]

\* every dict process_symbol may return when fetch_history did f
process_symbol(symbol, f) ==
    IF f.k = "raise" THEN {ErrorResult(symbol, f.msg)}
    ELSE IF RaisesKeyError(f.raw) THEN {ErrorResult(symbol, "'date'")}
    ELSE {Summarize(symbol, frame) : frame \in normalize_df(f.raw)}

\* ------------------------------------------------------------------ SpecSym

Symbols == {"AAA", "BBB"}

NoFrame == [k |-> "unset"]
NoResult == [k |-> "unset"]

\* main's variables, unused while one process_symbol call is examined
MainIdle ==
    /\ sector_map = <<>> /\ mc_map = <<>>
    /\ task = <<>> /\ fut = <<>> /\ yielded = {} /\ results = <<>>
    /\ pc = "idle" /\ tv_json = [k |-> "unset"] /\ files = {}

InitSym ==
    /\ \E s \in Symbols : symbols = <<s>>
    /\ fetched \in {Raised(m) : m \in FetchErrors}
                     \cup {Payload(raw) : raw \in RawInputs(MaxRows)}
    /\ df = NoFrame
    /\ res = NoResult
    /\ MainIdle

\* fetch_history raises: the except branch returns the error record
ProcessFetchRaises ==
    /\ res = NoResult
    /\ fetched.k = "raise"
    /\ df' = NoFrame
    /\ res' = ErrorResult(symbols[1], fetched.msg)
    /\ UNCHANGED <<fetched, mainVars>>

\* normalize_df raises KeyError on df["date"]: the except branch again
ProcessNormalizeRaises ==
    /\ res = NoResult
    /\ fetched.k = "ok"
    /\ RaisesKeyError(fetched.raw)
    /\ df' = NoFrame
    /\ res' = ErrorResult(symbols[1], "'date'")
    /\ UNCHANGED <<fetched, mainVars>>

\* normalize_df returns a frame and the summary is computed from it
ProcessReturns ==
    /\ res = NoResult
    /\ fetched.k = "ok"
    /\ ~RaisesKeyError(fetched.raw)
    /\ \E frame \in normalize_df(fetched.raw) :
          /\ df' = frame
          /\ res' = Summarize(symbols[1], frame)
    /\ UNCHANGED <<fetched, mainVars>>

NextSym == ProcessFetchRaises \/ ProcessNormalizeRaises \/ ProcessReturns

SpecSym == InitSym /\ [][NextSym]_vars

\* ------------------------------------------------------------------ build_tv_json_and_heatmap

\* the change_pct filter inverted into a zero-fill: nothing is skipped
SkippedNever(it) == FALSE

\* it.get("change_pct") is None: the item is skipped
Skipped(it) == it.change_pct = None

\* lines 141-145: display name and sector, from the sector map or the defaults
NameOf(it, sm) ==
    IF it.symbol \in DOMAIN sm THEN sm[it.symbol].name ELSE it.symbol
SectorOf(it, sm) ==
    IF it.symbol \in DOMAIN sm THEN sm[it.symbol].sector ELSE "Unknown"

\* lines 146-156: the mapped market cap if it is a number, else
\* avg_volume * price if both are truthy, else None
MarketCap(it, mcm) ==
    IF /\ it.symbol \in DOMAIN mcm
       /\ mcm[it.symbol] # None
       /\ mcm[it.symbol] # NaN
    THEN mcm[it.symbol]
    ELSE IF Truthy(it.avg_volume) /\ Truthy(it.price)
         THEN FMul(it.avg_volume, it.price)
         ELSE None

\* lines 158-168
Entry(it, sm, mcm) ==
    [symbol |-> it.symbol, name |-> NameOf(it, sm), sector |-> SectorOf(it, sm),
     price |-> it.price, change |-> it.change, change_pct |-> it.change_pct,
     market_cap_basic |-> MarketCap(it, mcm), volume |-> it.avg_volume,
     n_points |-> it.n_points]

RECURSIVE Flat(_, _, _)
\* lines 136-169: the entries of the items that are not skipped, in order
Flat(items, sm, mcm) ==
    IF items = <<>> THEN <<>>
    ELSE LET n == Len(items)
             front == Flat(SubSeq(items, 1, n - 1), sm, mcm)
         IN IF Skipped(items[n]) THEN front
            ELSE Append(front, Entry(items[n], sm, mcm))

\* the running total overwritten instead of added to
AccumulateOverwrites(total, e) ==
    IF e.market_cap_basic # None THEN e.market_cap_basic ELSE total

\* lines 176-177
Accumulate(total, e) ==
    IF e.market_cap_basic # None THEN FAdd(total, e.market_cap_basic) ELSE total

\* lines 173-177: one entry folded into the sectors dict (kept in insertion order)
FoldEntry(secs, e) ==
    LET sec == IF e.sector = "" THEN "Unknown" ELSE e.sector
        known == \E i \in 1..Len(secs) : secs[i].name = sec
        with == IF known THEN secs
                ELSE Append(secs, [name |-> sec, sector_market_cap |-> FZero,
                                   items |-> <<>>])
    IN [i \in 1..Len(with) |->
          IF with[i].name = sec
          THEN [name |-> sec,
                sector_market_cap |-> Accumulate(with[i].sector_market_cap, e),
                items |-> Append(with[i].items, e)]
          ELSE with[i]]

RECURSIVE FoldSectors(_)
\* lines 171-177
FoldSectors(flat) ==
    IF flat = <<>> THEN <<>>
    ELSE FoldEntry(FoldSectors(SubSeq(flat, 1, Len(flat) - 1)), flat[Len(flat)])

\* a zero total reported as it stands
ReportedCapKeepsZero(total) == IF total.n >= 0 THEN total ELSE None

\* line 181: the total if it is positive, else None
ReportedCap(total) == IF FGt0(total) THEN total ELSE None

\* lines 179-182
SectorsList(secs) ==
    [i \in 1..Len(secs) |->
        [name |-> secs[i].name,
         sector_market_cap |-> ReportedCap(secs[i].sector_market_cap),
         items |-> secs[i].items]]

\* lines 184-191: the document (generated_at left out)
TvJson(items, sm, mcm) ==
    LET flat == Flat(items, sm, mcm)
    IN [meta |-> [dataSource |-> "CAFEEF_HISTORY"],
        sectors |-> SectorsList(FoldSectors(flat)),
        flat |-> flat]

\* the emptiness test left out
FrameEmptyNever(flat) == FALSE

\* line 194: pd.DataFrame(flat).empty
FrameEmpty(flat) == flat = <<>>

\* lines 193-195: nothing to plot, SystemExit before any file is written
BuildExits ==
    /\ pc = "aggregate"
    /\ FrameEmpty(Flat(results, sector_map, mc_map))
    /\ tv_json' = TvJson(results, sector_map, mc_map)
    /\ pc' = "exit"
    /\ UNCHANGED <<symVars, symbols, sector_map, mc_map, task, fut, yielded,
                   results, files>>

\* lines 197-219: the chart and the document are written
BuildWrites ==
    /\ pc = "aggregate"
    /\ ~FrameEmpty(Flat(results, sector_map, mc_map))
    /\ tv_json' = TvJson(results, sector_map, mc_map)
    /\ files' = files \cup {"heatmap.html", "tv_data.json"}
    /\ pc' = "done"
    /\ UNCHANGED <<symVars, symbols, sector_map, mc_map, task, fut, yielded,
                   results>>

\* ------------------------------------------------------------------ inputs of main

Bar(date, close, volume) ==
    [c \in RawKeys |-> CASE c = "Ngay" -> date
                         [] c = "GiaDongCua" -> close
                         [] OTHER -> volume]
PriceBar(date, close) ==
    [c \in {"Ngay", "GiaDongCua"} |-> IF c = "Ngay" THEN date ELSE close]

\* what fetch_history does for one symbol in the runs examined: a timeout, no
\* bars, 10 -> 12, one bar without trades, 12 -> 0 without a volume field, a zero
\* first close, one bar with an unreadable date
SampleOutcomes ==
    {Raised("timeout"),
     Payload(<<>>),
     Payload(<<Bar(DateStr(2, 1), Float(10, 1), Float(1000, 1)),
               Bar(DateStr(1, 2), Float(12, 1), Float(1000, 1))>>),
     Payload(<<Bar(DateStr(2, 1), Float(12, 1), Float(0, 1))>>),
     Payload(<<PriceBar(DateStr(2, 1), Float(12, 1)),
               PriceBar(DateStr(1, 2), Float(0, 1))>>),
     Payload(<<Bar(DateStr(2, 1), Float(0, 1), Float(1000, 1)),
               Bar(DateStr(1, 2), Float(12, 1), Float(1000, 1))>>),
     Payload(<<Bar(Junk, Float(12, 1), Float(1000, 1))>>)}

\* the SymbolResults process_symbol returns on them
SampleResults ==
    UNION {process_symbol(s, f) : s \in Symbols, f \in SampleOutcomes}

\* read_sector_file: no file, or rows of sectors.csv
SectorMaps ==
    {<<>>,
     [s \in {"AAA"} |-> [sector |-> "Tech", name |-> "Alpha"]],
     [s \in Symbols |-> [sector |-> "Tech", name |-> s]],
     [s \in Symbols |-> [sector |-> IF s = "AAA" THEN "Tech" ELSE "Bank",
                         name |-> s]]}

\* read_marketcaps: a number, nan, or None for a cell float() rejects
McValues == {None, NaN, Float(0, 1), Float(5000, 1), Float(-5000, 1)}

\* no file, AAA alone, or AAA and BBB
McMaps ==
    {<<>>} \cup {[s \in {"AAA"} |-> v] : v \in McValues}
           \cup {[s \in Symbols |-> IF s = "AAA" THEN v ELSE Float(7000, 1)] :
                   v \in McValues}

Unset == [k |-> "unset"]

\* process_symbol's variables, unused while main is examined
SymIdle == fetched = Unset /\ df = NoFrame /\ res = NoResult

\* ------------------------------------------------------------------ SpecAgg

\* build_tv_json_and_heatmap is entered with a list of process_symbol's results
InitAgg ==
    /\ SymIdle
    /\ symbols = <<>> /\ task = <<>> /\ fut = <<>> /\ yielded = {}
    /\ results \in SeqSet(SampleResults, MaxItems)
    /\ sector_map \in SectorMaps
    /\ mc_map \in McMaps
    /\ pc = "aggregate"
    /\ tv_json = Unset
    /\ files = {}

NextAgg == BuildExits \/ BuildWrites

SpecAgg == InitAgg /\ [][NextAgg]_vars

\* ------------------------------------------------------------------ main

DEFAULT_WORKERS == 8

\* the outcomes of the fetches in the runs of main examined
PoolOutcomes ==
    {Raised("timeout"), Raised("http"),
     Payload(<<>>),
     Payload(<<Bar(DateStr(2, 1), Float(10, 1), Float(1000, 1)),
               Bar(DateStr(1, 2), Float(12, 1), Float(1000, 1))>>)}

Indices == 1..Len(symbols)

\* a failed fetch escaping process_symbol into the future
RunTaskUncaught(symbol, f) ==
    IF f.k = "raise" THEN {[k |-> "exception", msg |-> f.msg]}
    ELSE {[k |-> "result", value |-> r] : r \in process_symbol(symbol, f)}

\* what the worker stores in the future: process_symbol's return value
RunTask(symbol, f) ==
    {[k |-> "result", value |-> r] : r \in process_symbol(symbol, f)}

Init ==
    /\ SymIdle
    /\ symbols \in SeqSet(Symbols, MaxSymbols)
    /\ sector_map \in {<<>>, [s \in Symbols |-> [sector |-> "Tech", name |-> s]]}
    /\ mc_map \in {<<>>, [s \in {"AAA"} |-> Float(5000, 1)]}
    /\ task = [i \in Indices |-> "new"]
    /\ fut = [i \in Indices |-> Unset]
    /\ yielded = {}
    /\ results = <<>>
    /\ pc = "submit"
    /\ tv_json = Unset
    /\ files = {}

\* line 249: ex.submit for the next symbol of the comprehension
Submit ==
    /\ pc = "submit"
    /\ \E i \in Indices :
          /\ task[i] = "new"
          /\ \A j \in 1..(i - 1) : task[j] # "new"
          /\ task' = [task EXCEPT ![i] = "queued"]
    /\ UNCHANGED <<symVars, symbols, sector_map, mc_map, fut, yielded, results,
                   pc, tv_json, files>>

\* line 250: every symbol is submitted, the for loop over as_completed begins
StartCollect ==
    /\ pc = "submit"
    /\ \A i \in Indices : task[i] # "new"
    /\ pc' = "collect"
    /\ UNCHANGED <<symVars, symbols, sector_map, mc_map, task, fut, yielded,
                   results, tv_json, files>>

\* a free worker of the pool takes the head of the work queue
StartTask(i) ==
    /\ task[i] = "queued"
    /\ \A j \in 1..(i - 1) : task[j] # "queued"
    /\ Cardinality({j \in Indices : task[j] = "running"}) < DEFAULT_WORKERS
    /\ task' = [task EXCEPT ![i] = "running"]
    /\ UNCHANGED <<symVars, symbols, sector_map, mc_map, fut, yielded, results,
                   pc, tv_json, files>>

\* process_symbol runs to its return in the worker; the future is set
FinishTask(i) ==
    /\ task[i] = "running"
    /\ \E f \in PoolOutcomes : \E o \in RunTask(symbols[i], f) :
          fut' = [fut EXCEPT ![i] = o]
    /\ task' = [task EXCEPT ![i] = "finished"]
    /\ UNCHANGED <<symVars, symbols, sector_map, mc_map, yielded, results, pc,
                   tv_json, files>>

\* lines 250-252: as_completed yields a finished future; fut.result() returns
\* the dict, or re-raises what the task raised
Collect(i) ==
    /\ pc = "collect"
    /\ task[i] = "finished"
    /\ i \notin yielded
    /\ yielded' = yielded \cup {i}
    /\ IF fut[i].k = "result"
       THEN results' = Append(results, fut[i].value) /\ pc' = pc
       ELSE results' = results /\ pc' = "raised"
    /\ UNCHANGED <<symVars, symbols, sector_map, mc_map, task, fut, tv_json,
                   files>>

\* as_completed is exhausted and the with block shuts the pool down
LeavePool ==
    /\ pc = "collect"
    /\ yielded = Indices
    /\ pc' = "aggregate"
    /\ UNCHANGED <<symVars, symbols, sector_map, mc_map, task, fut, yielded,
                   results, tv_json, files>>

Next ==
    \/ Submit
    \/ StartCollect
    \/ \E i \in Indices : StartTask(i)
    \/ \E i \in Indices : FinishTask(i)
    \/ \E i \in Indices : Collect(i)
    \/ LeavePool
    \/ BuildExits
    \/ BuildWrites

Spec == Init /\ [][Next]_vars

\* ------------------------------------------------------------------ claims on process_symbol

Returned == res # NoResult
HasError(r) == "error" \in DOMAIN r
AllNull(r) ==
    /\ r.price = None /\ r.change = None /\ r.change_pct = None
    /\ r.avg_volume = None /\ r.n_points = 0

\* C2: every SymbolResult process_symbol returns either carries `error` with
\* all numeric fields null and n_points = 0, or carries no `error` and has
\* n_points >= 1 exactly when price is non-null.
C2_ResultShape ==
    Returned =>
        \/ HasError(res) /\ AllNull(res)
        \/ ~HasError(res) /\ (res.n_points >= 1 <=> res.price # None)

\* a summary of two bars was returned
C2_Witness ==
    Returned /\ ~HasError(res) /\ res.n_points = 2 /\ res.price # None

FrameReturned == df # NoFrame
HasCloses == FrameReturned /\ ~Empty(df) /\ "close" \in df.columns
Dates == {df.rows[i]["date"].ord : i \in 1..Len(df.rows)}
IsMin(x, S) == x \in S /\ \A y \in S : x <= y
IsMax(x, S) == x \in S /\ \A y \in S : y <= x

\* pct = (last - first) / first * 100, by cross-multiplication
IsPctOf(pct, first, last) ==
    /\ IsFloat(pct)
    /\ pct.n * (first.n * last.d) = pct.d * 100 * (last.n * first.d - first.n * last.d)

\* C3: on a non-empty series change_pct is null when the first close is 0 and
\* otherwise (last - first) / first * 100, first and last being the closes of
\* an earliest-dated and a latest-dated row.
C3_ChangePct ==
    (Returned /\ HasCloses) =>
        \E i, j \in 1..Len(df.rows) :
            /\ IsMin(df.rows[i]["date"].ord, Dates)
            /\ IsMax(df.rows[j]["date"].ord, Dates)
            /\ LET first == df.rows[i]["close"]
                   last == df.rows[j]["close"]
               IN IF first.n = 0 THEN res.change_pct = None
                  ELSE IsPctOf(res.change_pct, first, last)

\* a zero first close followed by a non-zero close
C3_WitnessZeroFirst ==
    /\ Returned /\ HasCloses /\ Len(df.rows) = 2
    /\ df.rows[1]["close"] = FZero /\ df.rows[2]["close"] = Float(12, 1)
    /\ res.change_pct = None /\ res.price = Float(12, 1)

EmptyPayload == fetched.k = "ok" /\ fetched.raw = <<>>

\* C9: on a payload of zero records normalize_df returns an empty series and
\* process_symbol returns the null record, n_points = 0, without `error`.
C9_EmptyPayloadIsNoError ==
    (Returned /\ EmptyPayload) =>
        /\ FrameReturned /\ df.rows = <<>>
        /\ ~HasError(res) /\ AllNull(res)

StrictlyIncreasing ==
    \A i \in 1..Len(df.rows) - 1 :
        df.rows[i]["date"].ord < df.rows[i + 1]["date"].ord
NonDecreasing ==
    \A i \in 1..Len(df.rows) - 1 :
        df.rows[i]["date"].ord <= df.rows[i + 1]["date"].ord
NoNullDateOrClose ==
    \A i \in 1..Len(df.rows) :
        /\ df.rows[i]["date"] # NaT
        /\ "close" \in df.columns => df.rows[i]["close"] # NaN

\* the bars of the payload that parse: how often row r occurs among them
Occurrences(rows, r) == Cardinality({i \in 1..Len(rows) : rows[i] = r})
KeepsExactlyTheValidBars ==
    LET valid == Dropna(fetched.raw)
    IN /\ Len(df.rows) = Len(valid)
       /\ \A i \in 1..Len(valid) :
            Occurrences(df.rows, valid[i]) = Occurrences(valid, valid[i])

\* C10 as claimed: the returned series has strictly increasing dates (one row
\* per date) and no row with a null date or a null close.
C10_StrictlyIncreasing ==
    FrameReturned => (StrictlyIncreasing /\ NoNullDateOrClose)

\* C10 amended: the returned series holds every bar with a parseable date and
\* close, duplicates of a date included, in non-decreasing date order; when
\* its dates are pairwise distinct the first and last close are determined by
\* the payload.
C10_SortedNotDeduplicated ==
    FrameReturned =>
        /\ NonDecreasing
        /\ NoNullDateOrClose
        /\ KeepsExactlyTheValidBars
        /\ StrictlyIncreasing =>
              \A g \in normalize_df(fetched.raw) : g = df

\* two bars out of date order came back sorted
C10_Witness ==
    /\ FrameReturned /\ Len(df.rows) = 2 /\ StrictlyIncreasing
    /\ Len(fetched.raw) = 2
    /\ to_datetime(fetched.raw[1]["Ngay"]) = df.rows[2]["date"]

\* ------------------------------------------------------------------ claims on main

Aggregating == pc \in {"aggregate", "done", "exit"}
SymbolCount(seq, s) == Cardinality({i \in 1..Len(seq) : seq[i].symbol = s})

\* C1: whatever the fetch outcomes and the completion order, the driving
\* thread reaches the aggregation only when all N tasks have completed, with
\* exactly N results, one per submitted symbol; no task failure aborts the batch.
C1_FullBarrier ==
    /\ pc # "raised"
    /\ Aggregating =>
          /\ \A i \in Indices : task[i] = "finished" /\ fut[i].k = "result"
          /\ Len(results) = Len(symbols)
          /\ \A s \in Symbols :
                SymbolCount(results, s) =
                    Cardinality({i \in Indices : symbols[i] = s})
          /\ \A i \in Indices : \E j \in 1..Len(results) : results[j] = fut[i].value

\* two symbols, the second finished first, one of the fetches failed
C1_Witness ==
    /\ pc = "aggregate"
    /\ Len(symbols) = 2 /\ symbols[1] # symbols[2]
    /\ results[1].symbol = symbols[2]
    /\ HasError(results[1]) /\ ~HasError(results[2])

\* ------------------------------------------------------------------ claims on the aggregation

Built == pc \in {"done", "exit"}
SetOf(seq) == {seq[i] : i \in 1..Len(seq)}
Reorderings(seq) ==
    {[i \in 1..Len(seq) |-> seq[p[i]]] : p \in Permutations(1..Len(seq))}
\* a document's sectors as a set of <<name, aggregate, member set>>
SectorView(doc) ==
    {<<doc.sectors[i].name, doc.sectors[i].sector_market_cap,
       SetOf(doc.sectors[i].items)>> : i \in 1..Len(doc.sectors)}

Surviving == SelectSeq(results, LAMBDA it : it.change_pct # None)

\* the chain as claimed: the estimate is taken whenever both factors are non-null
ClaimedMarketCap(it) ==
    IF it.symbol \in DOMAIN mc_map /\ IsFloat(mc_map[it.symbol])
    THEN mc_map[it.symbol]
    ELSE IF it.avg_volume # None /\ it.price # None
         THEN FMul(it.avg_volume, it.price)
         ELSE None

\* C5: a flat entry's market cap is the map's value if it is a number, else
\* avg_volume * price whenever both are non-null (also when one is 0), else null.
C5_MarketCapChain ==
    Built =>
        /\ Len(tv_json.flat) = Len(Surviving)
        /\ \A i \in 1..Len(Surviving) :
              tv_json.flat[i].market_cap_basic = ClaimedMarketCap(Surviving[i])

RECURSIVE SumCaps(_)
\* the sum of the non-null market caps of a list of entries
SumCaps(items) ==
    IF items = <<>> THEN FZero
    ELSE LET rest == SumCaps(Tail(items))
         IN IF Head(items).market_cap_basic = None THEN rest
            ELSE FAdd(rest, Head(items).market_cap_basic)

Contributes(sec) ==
    \E i \in 1..Len(sec.items) : sec.items[i].market_cap_basic # None

\* C6 as claimed: a sector's aggregate is null exactly when no member
\* contributed a non-null market cap, otherwise the sum of the non-null caps;
\* never zero.
C6_NullIffNoContribution ==
    Built =>
        \A i \in 1..Len(tv_json.sectors) :
            LET sec == tv_json.sectors[i]
            IN /\ sec.sector_market_cap = None <=> ~Contributes(sec)
               /\ sec.sector_market_cap # None =>
                     sec.sector_market_cap = SumCaps(sec.items)
               /\ sec.sector_market_cap # FZero

\* C6 amended: a sector's aggregate is null exactly when the sum of its
\* members' non-null market caps is not positive (so also when no member
\* contributed one), otherwise that sum; never zero.
C6_NullIffSumNotPositive ==
    Built =>
        \A i \in 1..Len(tv_json.sectors) :
            LET sec == tv_json.sectors[i]
            IN /\ sec.sector_market_cap = None <=> ~FGt0(SumCaps(sec.items))
               /\ sec.sector_market_cap # None =>
                     sec.sector_market_cap = SumCaps(sec.items)
               /\ sec.sector_market_cap # FZero
               /\ ~Contributes(sec) => sec.sector_market_cap = None

\* a sector of two members that sums an estimate and a mapped market cap
C6_Witness ==
    /\ pc = "done"
    /\ \E i \in 1..Len(tv_json.sectors) :
          LET sec == tv_json.sectors[i]
          IN /\ Len(sec.items) = 2
             /\ sec.items[1].market_cap_basic = Float(12000, 1)
             /\ sec.items[2].market_cap_basic = Float(5000, 1)
             /\ sec.sector_market_cap = Float(17000, 1)

AllItems == {<<i, j>> \in (1..Len(tv_json.sectors)) \X (1..MaxItems + 1) :
                j <= Len(tv_json.sectors[i].items)}

\* C7: flat holds an entry for a result exactly when its change_pct is
\* non-null: the results with null change_pct are in neither flat nor a sector,
\* every other result is once in flat and once in one sector's items.
C7_FlatIffChangePct ==
    Built =>
        /\ Len(tv_json.flat) = Len(Surviving)
        /\ \A i \in 1..Len(Surviving) :
              /\ tv_json.flat[i].symbol = Surviving[i].symbol
              /\ tv_json.flat[i].change_pct = Surviving[i].change_pct
              /\ tv_json.flat[i].change_pct # None
        /\ Cardinality(AllItems) = Len(tv_json.flat)
        /\ \A e \in SetOf(tv_json.flat) :
              /\ Cardinality({i \in 1..Len(tv_json.sectors) :
                                e \in SetOf(tv_json.sectors[i].items)}) = 1
              /\ Cardinality({x \in AllItems :
                                tv_json.sectors[x[1]].items[x[2]] = e})
                   = Cardinality({i \in 1..Len(tv_json.flat) : tv_json.flat[i] = e})
        /\ \A x \in AllItems :
              tv_json.sectors[x[1]].items[x[2]] \in SetOf(tv_json.flat)

\* of two results the one with a zero first close was dropped, the other kept
C7_Witness ==
    /\ pc = "done"
    /\ Len(results) = 2 /\ Len(tv_json.flat) = 1
    /\ \E i \in 1..Len(results) :
          ~HasError(results[i]) /\ results[i].change_pct = None
                                /\ results[i].price # None

\* C8: when no result passes the change_pct filter the run ends in the fatal
\* exit and neither the chart nor the document is written.
C8_EmptyIsFatal ==
    (Built /\ Surviving = <<>>) => (pc = "exit" /\ files = {})

\* every fetch failed and the run ended in the fatal exit
C8_Witness ==
    /\ pc = "exit"
    /\ Len(results) = MaxItems
    /\ \A i \in 1..Len(results) : HasError(results[i])
    /\ files = {}

====
